---- MODULE Spec2Model ----
(***************************************************************************)
(* Task management backend: the ownership-checked CRUD service             *)
(* (services/task_service.py), its request schemas (schemas/task.py), the  *)
(* API layer (api/tasks.py, api/dependencies.py) and the error-to-status   *)
(* mapping (api/exception_handlers.py, main.py).                           *)
(*                                                                         *)
(* Strings are sequences of one-character strings, so that trimming and    *)
(* length checks are computed, not assumed.  An Optional[T] value is <<>>   *)
(* (None) or <<x>> (the value x).                                          *)
(***************************************************************************)
EXTENDS Integers, Sequences, FiniteSets, TLC

VARIABLES
    tasks,      \* the tasks table: task id -> row, domain = ids of stored rows
    next_id,    \* the primary-key sequence of the tasks table
    now,        \* the clock read by datetime.utcnow()
    sess,       \* per request slot: the AsyncSession of a request that is waiting
                \* for its commit or for its refresh
    resp        \* the HTTP response the last step sent (op "none" when it sent none)

vars == <<tasks, next_id, now, sess, resp>>

----------------------------------------------------------------------------
(* Bounds of the model *)

MaxTasks == 2        \* rows ever inserted, in Spec
MaxClock == 1        \* the last instant of the clock
MaxSessions == 2     \* request slots
MaxOverlap == 1      \* requests in flight at once, in Spec
RaceTasks == 1       \* rows ever inserted, in SpecRace
RequestTasks == 1    \* rows ever inserted, in SpecRequests
AuthTasks == 1       \* rows ever inserted, in SpecAuth

Users == {1, 2}
TaskIds == 1..MaxTasks
Slots == 1..MaxSessions

----------------------------------------------------------------------------
(* Optional values and strings *)

None == <<>>
Some(x) == <<x>>
IsNone(o) == o = <<>>
Val(o) == o[1]

Whitespace == {" ", "\t", "\n"}

RECURSIVE lstrip(_)
lstrip(s) ==
    IF s = <<>> THEN s
    ELSE IF Head(s) \in Whitespace THEN lstrip(Tail(s)) ELSE s

RECURSIVE rstrip(_)
rstrip(s) ==
    IF s = <<>> THEN s
    ELSE IF s[Len(s)] \in Whitespace THEN rstrip(SubSeq(s, 1, Len(s) - 1)) ELSE s

\* str.strip(): removes leading and trailing whitespace
strip(s) == rstrip(lstrip(s))

\* n copies of the character c
Rep(c, n) == [i \in 1..n |-> c]

----------------------------------------------------------------------------
(* schemas/task.py *)

TITLE_MIN_LENGTH == 1
TITLE_MAX_LENGTH == 200
DESCRIPTION_MAX_LENGTH == 2000

\* Field(..., min_length=1, max_length=200): the constraint pydantic applies to
\* the value as received, before the field_validator (mode 'after') runs
TitleField(v) == Len(v) >= TITLE_MIN_LENGTH /\ Len(v) <= TITLE_MAX_LENGTH

\* Field(None, max_length=2000)
DescriptionField(v) == Len(v) <= DESCRIPTION_MAX_LENGTH

\* TaskCreate.validate_title / TaskReplace.validate_title: [ok, v]
validate_title(v) ==
    IF v # <<>>
    THEN LET s == strip(v)
         IN  IF s = <<>> THEN [ok |-> FALSE, v |-> s] ELSE [ok |-> TRUE, v |-> s]
    ELSE [ok |-> TRUE, v |-> v]

\* TaskUpdate.validate_title without the check of the stripped title
validate_title_update_unchecked(v) == [ok |-> TRUE, v |-> strip(v)]

\* TaskUpdate.validate_title, called with a non-None title (pydantic does not
\* run the validator on the default None)
validate_title_update(v) ==
    LET s == strip(v)
    IN  IF s = <<>> THEN [ok |-> FALSE, v |-> s] ELSE [ok |-> TRUE, v |-> s]

\* TaskCreate.validate_description on an Optional[str]
validate_description(o) ==
    IF ~IsNone(o) /\ Val(o) # <<>>
    THEN LET s == strip(Val(o))
         IN  IF s = <<>> THEN None ELSE Some(s)
    ELSE o

\* TaskCreate(title, description): title and description are Optional inputs
\* (None = the key is missing from the body or null).  Result: the parsed
\* model and the set of fields whose validation failed.
TaskCreate(title, description) ==
    LET terr == IsNone(title) \/ ~TitleField(Val(title)) \/ ~validate_title(Val(title)).ok
        derr == ~IsNone(description) /\ ~DescriptionField(Val(description))
    IN  [errors |-> (IF terr THEN {"title"} ELSE {}) \cup (IF derr THEN {"description"} ELSE {}),
         title |-> IF terr THEN <<>> ELSE validate_title(Val(title)).v,
         description |-> IF derr THEN None ELSE validate_description(description)]

\* TaskReplace(title, description, completed): no validator on description
TaskReplace(title, description, completed) ==
    LET terr == IsNone(title) \/ ~TitleField(Val(title)) \/ ~validate_title(Val(title)).ok
        derr == ~IsNone(description) /\ ~DescriptionField(Val(description))
        cerr == IsNone(completed)
    IN  [errors |-> (IF terr THEN {"title"} ELSE {}) \cup (IF derr THEN {"description"} ELSE {})
                    \cup (IF cerr THEN {"completed"} ELSE {}),
         title |-> IF terr THEN <<>> ELSE validate_title(Val(title)).v,
         description |-> IF derr THEN None ELSE description,
         completed |-> IF cerr THEN FALSE ELSE Val(completed)]

\* TaskUpdate(title, description, completed): every field Optional
TaskUpdate(title, description, completed) ==
    LET terr == ~IsNone(title) /\ (~TitleField(Val(title)) \/ ~validate_title_update(Val(title)).ok)
        derr == ~IsNone(description) /\ ~DescriptionField(Val(description))
    IN  [errors |-> (IF terr THEN {"title"} ELSE {}) \cup (IF derr THEN {"description"} ELSE {}),
         title |-> IF terr \/ IsNone(title) THEN None ELSE Some(validate_title_update(Val(title)).v),
         description |-> IF derr THEN None ELSE description,
         completed |-> completed]

----------------------------------------------------------------------------
(* auth/jwt.py, auth/dependencies.py, api/dependencies.py *)

\* A bearer token: whether its signature verifies under BETTER_AUTH_SECRET,
\* whether it has expired, and its 'sub' claim (None when the claim is missing)
Token(signed, expired, sub) == [signed |-> signed, expired |-> expired, sub |-> sub]

\* jwt.decode: the payload, or None for HTTPException(401)
decode_token(token) ==
    IF token.expired THEN None
    ELSE IF ~token.signed THEN None
    ELSE Some([sub |-> token.sub])

\* verify_token: the user id of the 'sub' claim, or None for HTTPException(401)
verify_token(token) ==
    LET payload == decode_token(token)
    IN  IF IsNone(payload) THEN None
        ELSE IF IsNone(Val(payload).sub) THEN None
        ELSE Val(payload).sub

\* auth.dependencies.get_current_user on the request's Authorization header
\* (None = no header): the verified user id, or None for 401
get_current_user(credential) ==
    IF IsNone(credential) THEN None ELSE verify_token(Val(credential))

\* api.dependencies.get_current_user_id: the user_id query parameter, as is
get_current_user_id(req) == req.user_id

----------------------------------------------------------------------------
(* api/exceptions.py, api/exception_handlers.py, main.py *)

NoErrorCode == "-"

\* The handler run for an exception leaving an endpoint: the three handlers
\* main.py registers, FastAPI's own handler for a request that fails schema
\* validation, and the server error of any other exception
exception_handler(exc) ==
    CASE exc = "TaskNotFoundError" -> [status |-> 404, error_code |-> "TASK_NOT_FOUND"]
      [] exc = "TaskAccessDeniedError" -> [status |-> 403, error_code |-> "TASK_ACCESS_DENIED"]
      [] exc = "ValidationError" -> [status |-> 400, error_code |-> "VALIDATION_ERROR"]
      [] exc = "RequestValidationError" -> [status |-> 422, error_code |-> NoErrorCode]
      [] OTHER -> [status |-> 500, error_code |-> NoErrorCode]

\* The exception with which a request whose body fails its schema leaves the
\* API layer: pydantic's errors surface as FastAPI's RequestValidationError;
\* api.exceptions.ValidationError is raised nowhere
SchemaFailure == "RequestValidationError"

\* A response: the endpoint, the status, the error_code of the JSON content
\* ("-" when it has none), the fields the content names, and the tasks of the body
Response(op, status, error_code, fields, body) ==
    [op |-> op, status |-> status, error_code |-> error_code, fields |-> fields,
     body |-> body]

NoResponse == Response("none", 0, NoErrorCode, {}, <<>>)

ErrorResponse(op, exc, fields) ==
    Response(op, exception_handler(exc).status, exception_handler(exc).error_code,
             fields, <<>>)

----------------------------------------------------------------------------
(* models/task.py and services/task_service.py *)

Idle == [op |-> "idle"]

\* get_task as a single query filtered by id and user_id
get_task_filtered(task_id, user_id) ==
    IF task_id \notin DOMAIN tasks \/ tasks[task_id].user_id # user_id
    THEN "TaskNotFoundError"
    ELSE "ok"

\* get_task without the comparison of task.user_id with the requester
get_task_unowned(task_id, user_id) ==
    IF task_id \notin DOMAIN tasks THEN "TaskNotFoundError" ELSE "ok"

\* TaskService.get_task: "ok", or the exception it raises
get_task(task_id, user_id) ==
    IF task_id \notin DOMAIN tasks THEN "TaskNotFoundError"
    ELSE IF tasks[task_id].user_id # user_id THEN "TaskAccessDeniedError"
    ELSE "ok"

\* Task(...) with the two timestamps exchanged
NewTask_swapped(id, title, description, user_id, t1, t2) ==
    [id |-> id, title |-> title, description |-> description, completed |-> FALSE,
     user_id |-> user_id, created_at |-> t2, updated_at |-> t1]

\* Task(title, description, user_id, completed=False): created_at and
\* updated_at come from two successive calls of datetime.utcnow()
NewTask(id, title, description, user_id, t1, t2) ==
    [id |-> id, title |-> title, description |-> description, completed |-> FALSE,
     user_id |-> user_id, created_at |-> t1, updated_at |-> t2]

\* The columns of the tasks table
Columns == {"id", "title", "description", "completed", "user_id", "created_at", "updated_at"}

\* The SET clause of the UPDATE a flush emits: for each column, Some(value)
\* when the attribute's value differs from the loaded one, None otherwise
Dirty(loaded, new) ==
    [c \in Columns |-> IF new[c] # loaded[c] THEN Some(new[c]) ELSE None]

\* no attribute changed: the flush emits no UPDATE
NoUpdate(d) == \A c \in Columns : IsNone(d[c])

\* UPDATE tasks SET <dirty columns> WHERE id = ...
ApplyUpdate(row, d) ==
    [c \in Columns |-> IF IsNone(d[c]) THEN row[c] ELSE Val(d[c])]

\* the SELECT of list_tasks without its WHERE clause
UserTaskIds_all(user_id) == DOMAIN tasks

\* SELECT ... WHERE tasks.user_id = :user_id
UserTaskIds(user_id) == {t \in DOMAIN tasks : tasks[t].user_id = user_id}

\* replace_task also stamping created_at
ReplaceAssign_created(task, data, t) ==
    [task EXCEPT !.title = data.title,
                 !.description = data.description,
                 !.completed = data.completed,
                 !.created_at = t,
                 !.updated_at = t]

\* replace_task assigning the description only when the request has one
ReplaceAssign_partial(task, data, t) ==
    [task EXCEPT !.title = data.title,
                 !.description = IF ~IsNone(data.description) THEN data.description ELSE @,
                 !.completed = data.completed,
                 !.updated_at = t]

\* replace_task, lines 166-169: the attributes assigned to the loaded task
ReplaceAssign(task, data, t) ==
    [task EXCEPT !.title = data.title,
                 !.description = data.description,
                 !.completed = data.completed,
                 !.updated_at = t]

\* update_task assigning the description whether or not the request has one
UpdateAssign_unconditional(task, data, t) ==
    [task EXCEPT !.title = IF ~IsNone(data.title) THEN Val(data.title) ELSE @,
                 !.description = data.description,
                 !.completed = IF ~IsNone(data.completed) THEN Val(data.completed) ELSE @,
                 !.updated_at = t]

\* update_task, lines 212-219
UpdateAssign(task, data, t) ==
    [task EXCEPT !.title = IF ~IsNone(data.title) THEN Val(data.title) ELSE @,
                 !.description = IF ~IsNone(data.description) THEN data.description ELSE @,
                 !.completed = IF ~IsNone(data.completed) THEN Val(data.completed) ELSE @,
                 !.updated_at = t]

----------------------------------------------------------------------------
(* Requests *)

Credentials ==
    { None,
      Some(Token(TRUE, FALSE, Some(1))),
      Some(Token(TRUE, FALSE, Some(2))),
      Some(Token(FALSE, FALSE, Some(1))),
      Some(Token(TRUE, TRUE, Some(1))),
      Some(Token(TRUE, FALSE, None)) }

\* A JSON body: each key is None when missing (or null)
Body(title, description, completed) ==
    [title |-> title, description |-> description, completed |-> completed]

NoBody == Body(None, None, None)

\* The bodies of Spec
CreateBodies ==
    { Body(Some(<<"a">>), None, None),
      Body(Some(<<" ", "b", " ">>), Some(<<" ", "d">>), None),
      Body(Some(<<" ">>), None, None) }

ReplaceBodies ==
    { Body(Some(<<" ", "b", " ">>), None, Some(TRUE)),
      Body(Some(<<" ">>), None, Some(TRUE)) }

UpdateBodies ==
    { Body(None, None, Some(TRUE)),
      Body(Some(<<" ">>), None, None) }

\* The bodies of SpecRace
RaceCreateBodies ==
    { Body(Some(<<"a">>), None, None) }

RaceReplaceBodies ==
    { Body(Some(<<"b">>), Some(<<"d">>), Some(TRUE)),
      Body(Some(<<"a">>), None, Some(FALSE)) }

RaceUpdateBodies ==
    { NoBody,
      Body(None, None, Some(TRUE)),
      Body(Some(<<"b">>), None, None) }

\* The bodies of SpecRequests: titles of 199 to 201 characters with and without
\* surrounding blanks, descriptions of 2000 and 2001 characters
Pad(n, s, m) == Rep(" ", n) \o s \o Rep(" ", m)

RequestTitles ==
    { None, Some(<<>>), Some(<<" ", " ">>), Some(<<"a">>), Some(<<" ", "a", " ", "b", " ">>),
      Some(Rep("a", TITLE_MAX_LENGTH)),
      Some(Rep("a", TITLE_MAX_LENGTH + 1)),
      Some(Pad(1, Rep("a", TITLE_MAX_LENGTH - 1), 0)),
      Some(Pad(1, Rep("a", TITLE_MAX_LENGTH - 1), 1)),
      Some(Pad(0, Rep("a", TITLE_MAX_LENGTH), 1)) }

RequestDescriptions ==
    { None, Some(<<>>), Some(<<" ">>), Some(<<"d">>), Some(<<" ", "d", " ">>),
      Some(Rep("d", DESCRIPTION_MAX_LENGTH + 1)) }

RequestBodies ==
    { Body(t, None, Some(TRUE)) : t \in RequestTitles }
    \cup { Body(Some(<<"a">>), d, Some(FALSE)) : d \in RequestDescriptions }
    \cup { Body(None, d, None) : d \in RequestDescriptions }

\* An HTTP request: the Authorization header, the user_id query parameter,
\* the task_id path parameter (0 when the path has none) and the JSON body
Request(credential, user_id, task_id, body) ==
    [credential |-> credential, user_id |-> user_id, task_id |-> task_id,
     title |-> body.title, description |-> body.description,
     completed |-> body.completed]

----------------------------------------------------------------------------
(* Sessions *)

\* A request between two awaits of its handler: the endpoint, the await it is
\* at, the caller and the task, and, until the commit, the request body
\* (task_data), the value datetime.utcnow() returned to the handler, the row
\* as get_task loaded it and the columns the flush will write
Session(op, phase, req, dirty) ==
    [op |-> op, phase |-> phase, user_id |-> req.user_id, task_id |-> req.task_id,
     data |-> IF phase = "commit" THEN Body(req.title, req.description, req.completed)
              ELSE NoBody,
     at |-> IF phase = "commit" THEN now ELSE 0,
     loaded |-> IF phase = "commit" THEN Some(tasks[req.task_id]) ELSE None,
     dirty |-> dirty]

FreeSlots == {s \in Slots : sess[s] = Idle}
\* the slot a new request is served in
NewSlot == CHOOSE s \in FreeSlots : \A r \in FreeSlots : s <= r

SuccessStatus(op) ==
    CASE op = "create" -> 201
      [] op = "delete" -> 204
      [] OTHER -> 200

----------------------------------------------------------------------------
(* State machine *)

Init ==
    /\ tasks = <<>>
    /\ next_id = 1
    /\ now = 0
    /\ sess = [s \in Slots |-> Idle]
    /\ resp = NoResponse

\* time passes
Tick ==
    /\ now' = now + 1
    /\ resp' = NoResponse
    /\ UNCHANGED <<tasks, next_id, sess>>

\* POST /tasks, up to the commit of the INSERT
api_create_task(req) ==
    LET task_data == TaskCreate(req.title, req.description)
        user_id == get_current_user_id(req)
    IN  IF task_data.errors # {}
        THEN /\ resp' = ErrorResponse("create", SchemaFailure, task_data.errors)
             /\ UNCHANGED <<tasks, next_id, now, sess>>
        ELSE /\ FreeSlots # {}
             /\ \E d \in {0, 1} :
                  /\ now + d <= MaxClock
                  /\ now' = now + d
                  /\ tasks' = tasks @@ (next_id :>
                        NewTask(next_id, task_data.title, task_data.description,
                                user_id, now, now + d))
             /\ next_id' = next_id + 1
             /\ sess' = [sess EXCEPT ![NewSlot] =
                            Session("create", "refresh", [req EXCEPT !.task_id = next_id], None)]
             /\ resp' = NoResponse

\* the rows of ids in ascending order of created_at
ListOrders_ascending(ids) ==
    { q \in [1..Cardinality(ids) -> ids] :
        /\ \A i, j \in DOMAIN q : i # j => q[i] # q[j]
        /\ \A i, j \in DOMAIN q : i < j => tasks[q[i]].created_at <= tasks[q[j]].created_at }

\* The orders ORDER BY created_at DESC can return the rows of ids in
ListOrders(ids) ==
    { q \in [1..Cardinality(ids) -> ids] :
        /\ \A i, j \in DOMAIN q : i # j => q[i] # q[j]
        /\ \A i, j \in DOMAIN q : i < j => tasks[q[i]].created_at >= tasks[q[j]].created_at }

\* GET /tasks
api_list_tasks(req) ==
    LET user_id == get_current_user_id(req)
        ids == UserTaskIds(user_id)
    IN  /\ \E q \in ListOrders(ids) :
             resp' = Response("list", 200, NoErrorCode, {},
                              [i \in DOMAIN q |-> tasks[q[i]]])
        /\ UNCHANGED <<tasks, next_id, now, sess>>

\* GET /tasks/{task_id}
api_get_task(req) ==
    LET user_id == get_current_user_id(req)
        found == get_task(req.task_id, user_id)
    IN  /\ resp' = IF found # "ok"
                   THEN ErrorResponse("get", found, {})
                   ELSE Response("get", 200, NoErrorCode, {},
                                 <<tasks[req.task_id]>>)
        /\ UNCHANGED <<tasks, next_id, now, sess>>

\* PUT /tasks/{task_id}, up to the attribute assignments
api_replace_task(req) ==
    LET task_data == TaskReplace(req.title, req.description, req.completed)
        user_id == get_current_user_id(req)
        found == get_task(req.task_id, user_id)
    IN  IF task_data.errors # {}
        THEN /\ resp' = ErrorResponse("replace", SchemaFailure, task_data.errors)
             /\ UNCHANGED <<tasks, next_id, now, sess>>
        ELSE IF found # "ok"
        THEN /\ resp' = ErrorResponse("replace", found, {})
             /\ UNCHANGED <<tasks, next_id, now, sess>>
        ELSE /\ FreeSlots # {}
             /\ sess' = [sess EXCEPT ![NewSlot] =
                           Session("replace", "commit", req,
                                   Dirty(tasks[req.task_id],
                                         ReplaceAssign(tasks[req.task_id], task_data, now)))]
             /\ resp' = NoResponse
             /\ UNCHANGED <<tasks, next_id, now>>

\* PATCH /tasks/{task_id}, up to the attribute assignments
api_update_task(req) ==
    LET task_data == TaskUpdate(req.title, req.description, req.completed)
        user_id == get_current_user_id(req)
        found == get_task(req.task_id, user_id)
    IN  IF task_data.errors # {}
        THEN /\ resp' = ErrorResponse("patch", SchemaFailure, task_data.errors)
             /\ UNCHANGED <<tasks, next_id, now, sess>>
        ELSE IF found # "ok"
        THEN /\ resp' = ErrorResponse("patch", found, {})
             /\ UNCHANGED <<tasks, next_id, now, sess>>
        ELSE /\ FreeSlots # {}
             /\ sess' = [sess EXCEPT ![NewSlot] =
                           Session("patch", "commit", req,
                                   Dirty(tasks[req.task_id],
                                         UpdateAssign(tasks[req.task_id], task_data, now)))]
             /\ resp' = NoResponse
             /\ UNCHANGED <<tasks, next_id, now>>

\* DELETE /tasks/{task_id}, up to session.delete(task)
api_delete_task(req) ==
    LET user_id == get_current_user_id(req)
        found == get_task(req.task_id, user_id)
    IN  IF found # "ok"
        THEN /\ resp' = ErrorResponse("delete", found, {})
             /\ UNCHANGED <<tasks, next_id, now, sess>>
        ELSE /\ FreeSlots # {}
             /\ sess' = [sess EXCEPT ![NewSlot] = Session("delete", "commit", req, None)]
             /\ resp' = NoResponse
             /\ UNCHANGED <<tasks, next_id, now>>

\* a commit that writes the row back when its UPDATE matches none (an upsert,
\* as session.merge would do)
CommitUpdate_merge(s) ==
    /\ sess[s] # Idle
    /\ sess[s].phase = "commit"
    /\ sess[s].op \in {"replace", "patch"}
    /\ LET se == sess[s]
       IN  /\ tasks' = IF se.task_id \in DOMAIN tasks
                       THEN [tasks EXCEPT ![se.task_id] = ApplyUpdate(@, se.dirty)]
                       ELSE tasks @@ (se.task_id :> ApplyUpdate(Val(se.loaded), se.dirty))
           /\ sess' = [sess EXCEPT ![s] = Session(se.op, "refresh", se, None)]
           /\ resp' = NoResponse
    /\ UNCHANGED <<next_id, now>>

\* await session.commit() of a replace or patch: the flush emits the UPDATE
\* of the dirty columns, if any, and an UPDATE that matches no row raises
CommitUpdate(s) ==
    /\ sess[s] # Idle
    /\ sess[s].phase = "commit"
    /\ sess[s].op \in {"replace", "patch"}
    /\ LET se == sess[s]
       IN  IF NoUpdate(se.dirty)
           THEN /\ sess' = [sess EXCEPT ![s] = Session(se.op, "refresh", se, None)]
                /\ resp' = NoResponse
                /\ UNCHANGED tasks
           ELSE IF se.task_id \notin DOMAIN tasks
           THEN /\ resp' = ErrorResponse(se.op, "StaleDataError", {})
                /\ sess' = [sess EXCEPT ![s] = Idle]
                /\ UNCHANGED tasks
           ELSE /\ tasks' = [tasks EXCEPT ![se.task_id] = ApplyUpdate(@, se.dirty)]
                /\ sess' = [sess EXCEPT ![s] = Session(se.op, "refresh", se, None)]
                /\ resp' = NoResponse
    /\ UNCHANGED <<next_id, now>>

\* a delete that keeps the row (a tombstone instead of DELETE FROM tasks)
CommitDelete_kept(s) ==
    /\ sess[s] # Idle
    /\ sess[s].phase = "commit"
    /\ sess[s].op = "delete"
    /\ resp' = Response("delete", SuccessStatus("delete"),
                        NoErrorCode, {}, <<>>)
    /\ sess' = [sess EXCEPT ![s] = Idle]
    /\ UNCHANGED <<tasks, next_id, now>>

\* await session.commit() of a delete: DELETE FROM tasks WHERE id = ...
CommitDelete(s) ==
    /\ sess[s] # Idle
    /\ sess[s].phase = "commit"
    /\ sess[s].op = "delete"
    /\ tasks' = [t \in DOMAIN tasks \ {sess[s].task_id} |-> tasks[t]]
    /\ resp' = Response("delete", SuccessStatus("delete"),
                        NoErrorCode, {}, <<>>)
    /\ sess' = [sess EXCEPT ![s] = Idle]
    /\ UNCHANGED <<next_id, now>>

\* await session.refresh(task) and the response of create, replace and patch
Refresh(s) ==
    /\ sess[s] # Idle
    /\ sess[s].phase = "refresh"
    /\ LET se == sess[s]
       IN  resp' = IF se.task_id \in DOMAIN tasks
                   THEN Response(se.op, SuccessStatus(se.op),
                                 NoErrorCode, {}, <<tasks[se.task_id]>>)
                   ELSE ErrorResponse(se.op, "InvalidRequestError", {})
    /\ sess' = [sess EXCEPT ![s] = Idle]
    /\ UNCHANGED <<tasks, next_id, now>>

InFlight == Cardinality({s \in Slots : sess[s] # Idle})

\* The steps of the service for requests drawn from the given sets, with at
\* most maxTasks rows ever inserted and at most overlap requests in flight
Steps(creds, users, ids, maxTasks, overlap, createBodies, replaceBodies, updateBodies) ==
    \/ now < MaxClock /\ Tick
    \/ \E c \in creds, u \in users, b \in createBodies :
          /\ next_id <= maxTasks
          /\ InFlight < overlap
          /\ api_create_task(Request(c, u, 0, b))
    \/ \E c \in creds, u \in users :
          api_list_tasks(Request(c, u, 0, NoBody))
    \/ \E c \in creds, u \in users, t \in ids :
          api_get_task(Request(c, u, t, NoBody))
    \/ \E c \in creds, u \in users, t \in ids, b \in replaceBodies :
          InFlight < overlap /\ api_replace_task(Request(c, u, t, b))
    \/ \E c \in creds, u \in users, t \in ids, b \in updateBodies :
          InFlight < overlap /\ api_update_task(Request(c, u, t, b))
    \/ \E c \in creds, u \in users, t \in ids :
          InFlight < overlap /\ api_delete_task(Request(c, u, t, NoBody))
    \/ \E s \in Slots : CommitUpdate(s)
    \/ \E s \in Slots : CommitDelete(s)
    \/ \E s \in Slots : Refresh(s)

\* Requests served one at a time, by two users on up to MaxTasks rows
Next ==
    Steps({None}, Users, TaskIds, MaxTasks, MaxOverlap,
          CreateBodies, ReplaceBodies, UpdateBodies)

Spec == Init /\ [][Next]_vars

\* Overlapping requests of two users on up to RaceTasks rows
NextRace ==
    Steps({None}, Users, 1..RaceTasks, RaceTasks, MaxSessions,
          RaceCreateBodies, RaceReplaceBodies, RaceUpdateBodies)

SpecRace == Init /\ [][NextRace]_vars

\* Requests of one user with any body, served one at a time on up to
\* RequestTasks rows
NextRequests ==
    Steps({None}, {1}, 1..RequestTasks, RequestTasks, MaxOverlap,
          RequestBodies, RequestBodies, RequestBodies)

SpecRequests == Init /\ [][NextRequests]_vars

\* Requests with any credential, served one at a time on up to AuthTasks rows
NextAuth ==
    Steps(Credentials, Users, 1..AuthTasks, AuthTasks, MaxOverlap,
          RaceCreateBodies, RaceReplaceBodies, RaceUpdateBodies)

SpecAuth == Init /\ [][NextAuth]_vars

----------------------------------------------------------------------------
(* Properties *)

\* a request without Authorization header
Req(u, t, b) == Request(None, u, t, b)

\* the step starts a session of the given endpoint and sends no response yet
Started(op) ==
    /\ resp' = NoResponse
    /\ \E s \in Slots : sess[s] = Idle /\ sess'[s] # Idle /\ sess'[s].op = op

\* C1: get, replace, patch and delete of task id t by user u answer 404
\* TASK_NOT_FOUND when no row has id t, whoever u is, 403 TASK_ACCESS_DENIED
\* when the row of id t belongs to another user, and otherwise go on and
\* succeed (200, or 204 for delete), for requests whose body passes its
\* schema. The answer is decided by the store as the request reads it; the
\* commit and the refresh of a replace or patch that went on succeed when the
\* row is still stored as they run.
C1_ExistenceBeforeOwnership ==
    [][
        /\ \A u \in Users, t \in TaskIds :
             LET absent == t \notin DOMAIN tasks
                 foreign == t \in DOMAIN tasks /\ tasks[t].user_id # u
                 Outcome(goesOn) ==
                    /\ absent => resp'.status = 404 /\ resp'.error_code = "TASK_NOT_FOUND"
                    /\ foreign => resp'.status = 403 /\ resp'.error_code = "TASK_ACCESS_DENIED"
                    /\ (~absent /\ ~foreign) => goesOn
             IN  /\ (resp'.op = "get" /\ api_get_task(Req(u, t, NoBody)))
                    => Outcome(resp'.status = 200 /\ resp'.body = <<tasks[t]>>)
                 /\ \A b \in ReplaceBodies \cup RaceReplaceBodies :
                      (/\ resp'.op = "replace" \/ sess' # sess
                       /\ TaskReplace(b.title, b.description, b.completed).errors = {}
                       /\ api_replace_task(Req(u, t, b)))
                      => Outcome(Started("replace"))
                 /\ \A b \in UpdateBodies \cup RaceUpdateBodies :
                      (/\ resp'.op = "patch" \/ sess' # sess
                       /\ TaskUpdate(b.title, b.description, b.completed).errors = {}
                       /\ api_update_task(Req(u, t, b)))
                      => Outcome(Started("patch"))
                 /\ ((resp'.op = "delete" \/ sess' # sess) /\ api_delete_task(Req(u, t, NoBody)))
                    => Outcome(Started("delete"))
        /\ \A s \in Slots :
             sess'[s] # sess[s] =>
             /\ (CommitUpdate(s) /\ sess[s].task_id \in DOMAIN tasks)
                   => resp' = NoResponse /\ sess'[s] # Idle
             /\ CommitDelete(s) => resp'.status = 204 /\ sess[s].task_id \notin DOMAIN tasks'
             /\ (/\ Refresh(s)
                 /\ sess[s].op \in {"replace", "patch"}
                 /\ sess[s].task_id \in DOMAIN tasks)
                   => resp'.status = 200 /\ resp'.body = <<tasks[sess[s].task_id]>>
    ]_vars

\* a request for another user's task was answered 403, one for a missing id 404
C1_Witness ==
    /\ resp.op = "patch"
    /\ resp.status = 403
    /\ resp.error_code = "TASK_ACCESS_DENIED"
    /\ DOMAIN tasks # {}

\* C2: the list of user u holds exactly the stored rows whose user_id is u,
\* each once: no row of another user, and every row of u.
C2_ListIsolation ==
    [][ \A u \in Users :
          (resp'.op = "list" /\ api_list_tasks(Req(u, 0, NoBody))) =>
            /\ resp'.status = 200
            /\ \A i \in DOMAIN resp'.body :
                 /\ resp'.body[i].user_id = u
                 /\ resp'.body[i].id \in DOMAIN tasks
                 /\ resp'.body[i] = tasks[resp'.body[i].id]
            /\ \A t \in DOMAIN tasks :
                 tasks[t].user_id = u => \E i \in DOMAIN resp'.body : resp'.body[i] = tasks[t]
            /\ Len(resp'.body) = Cardinality({t \in DOMAIN tasks : tasks[t].user_id = u})
    ]_vars

\* a list was returned that holds a row while another user's row is stored
C2_Witness ==
    /\ resp.op = "list"
    /\ Len(resp.body) >= 1
    /\ \E t \in DOMAIN tasks : tasks[t].user_id # resp.body[1].user_id

\* C3: every endpoint runs only for a request whose bearer credential
\* verifies, with the verified identifier as the user id; any other request
\* is answered 401 and touches neither the table nor a session.
C3_AuthenticatedOnly ==
    [][ \A c \in Credentials, u \in Users :
          LET Endpoint ==
                \/ \E b \in RaceCreateBodies : api_create_task(Request(c, u, 0, b))
                \/ api_list_tasks(Request(c, u, 0, NoBody))
                \/ \E t \in 1..AuthTasks :
                     \/ api_get_task(Request(c, u, t, NoBody))
                     \/ \E b \in RaceReplaceBodies : api_replace_task(Request(c, u, t, b))
                     \/ \E b \in RaceUpdateBodies : api_update_task(Request(c, u, t, b))
                     \/ api_delete_task(Request(c, u, t, NoBody))
          IN  (get_current_user(c) # Some(u) /\ Endpoint)
                 => resp'.status = 401 /\ tasks' = tasks /\ sess' = sess
    ]_vars

\* C4: a step that answers 404 or 403, and every get and list, leaves the
\* table unchanged, and a row changes or disappears only in the commit of a
\* request of the row's owner, whatever requests overlap.
C4_NoForeignChange ==
    [][
        /\ resp'.status \in {403, 404} => tasks' = tasks
        /\ resp'.op \in {"get", "list"} => tasks' = tasks
        /\ \A t \in DOMAIN tasks :
             (t \notin DOMAIN tasks' \/ tasks'[t] # tasks[t]) =>
                \E s \in Slots :
                   /\ sess[s] # Idle
                   /\ sess[s].phase = "commit"
                   /\ sess[s].task_id = t
                   /\ sess[s].user_id = tasks[t].user_id
                   /\ sess'[s] # sess[s]
    ]_vars

\* another user's replace was answered 403 while a request was in flight
C4_Witness ==
    /\ resp.op = "replace"
    /\ resp.status = 403
    /\ DOMAIN tasks # {}
    /\ \E s \in Slots : sess[s] # Idle /\ sess[s].phase = "commit"

\* C5: a stored row keeps its id, user_id and created_at in every step, and
\* a new row appears only in a create, under the next id of the sequence and
\* with the user id of the create's caller.
C5_ImmutableIdentity ==
    [][
        /\ \A t \in DOMAIN tasks \cap DOMAIN tasks' :
             /\ tasks'[t].id = tasks[t].id
             /\ tasks'[t].user_id = tasks[t].user_id
             /\ tasks'[t].created_at = tasks[t].created_at
        /\ \A t \in DOMAIN tasks' \ DOMAIN tasks :
             /\ t = next_id
             /\ tasks'[t].id = t
             /\ \E u \in Users, b \in CreateBodies : api_create_task(Req(u, 0, b))
             /\ \A u \in Users, b \in CreateBodies :
                  api_create_task(Req(u, 0, b)) => tasks'[t].user_id = u
    ]_vars

\* a replace succeeded on a row at a later instant than its creation
C5_Witness ==
    /\ resp.op = "replace"
    /\ resp.status = 200
    /\ resp.body[1].updated_at > resp.body[1].created_at

\* a title that is non-empty, not whitespace-only and equal to its trimmed form
TitleOk(s) ==
    /\ s # <<>>
    /\ \E i \in DOMAIN s : s[i] \notin Whitespace
    /\ s[1] \notin Whitespace
    /\ s[Len(s)] \notin Whitespace

\* the first non-blank and last non-blank positions of a string give its
\* trimmed length (0 for a blank string)
TrimmedLen(s) ==
    LET ix == {i \in DOMAIN s : s[i] \notin Whitespace}
    IN  IF ix = {} THEN 0
        ELSE (CHOOSE i \in ix : \A j \in ix : j <= i)
             - (CHOOSE i \in ix : \A j \in ix : i <= j) + 1

\* the bodies whose supplied title is blank after trimming
BlankTitleBodies ==
    {b \in RequestBodies : ~IsNone(b.title) /\ TrimmedLen(Val(b.title)) = 0}

\* C6: a create, replace or patch whose supplied title is blank after
\* trimming is rejected with an error status and changes neither the table nor
\* a session, and every stored title is non-empty, not whitespace-only and
\* equal to its trimmed form.
C6_TitleNeverBlank ==
    [][
        /\ \A t \in DOMAIN tasks' : TitleOk(tasks'[t].title)
        /\ resp'.op \in {"create", "replace", "patch"} \/ sess' # sess =>
             \A b \in BlankTitleBodies :
                 \A t \in 1..RequestTasks :
                    (\/ api_create_task(Req(1, 0, b))
                     \/ api_replace_task(Req(1, t, b))
                     \/ api_update_task(Req(1, t, b)))
                    => resp'.status >= 400 /\ tasks' = tasks /\ sess' = sess
    ]_vars

\* a patch was rejected for its title while a row is stored
C6_Witness ==
    /\ resp.op = "patch"
    /\ resp.status >= 400
    /\ resp.fields = {"title"}
    /\ DOMAIN tasks # {}

\* C7: the description of every stored row is absent or a non-empty string
\* without surrounding whitespace.
C7_DescriptionNormalized ==
    \A t \in DOMAIN tasks :
       \/ IsNone(tasks[t].description)
       \/ /\ Val(tasks[t].description) # <<>>
          /\ Val(tasks[t].description)[1] \notin Whitespace
          /\ Val(tasks[t].description)[Len(Val(tasks[t].description))] \notin Whitespace

\* the fields of a body that fail a field-level validation: a title that is
\* blank or longer than 200 once trimmed, a description longer than 2000
InvalidFields(b) ==
    (IF ~IsNone(b.title)
        /\ (TrimmedLen(Val(b.title)) = 0 \/ TrimmedLen(Val(b.title)) > 200)
     THEN {"title"} ELSE {})
    \cup
    (IF ~IsNone(b.description) /\ Len(Val(b.description)) > 2000
     THEN {"description"} ELSE {})

InvalidBodies == {b \in RequestBodies : InvalidFields(b) # {}}

InvalidFieldsOf == [b \in InvalidBodies |-> InvalidFields(b)]

\* C8: a create, replace or patch whose title is blank or longer than 200, or
\* whose description is longer than 2000, is answered 400 VALIDATION_ERROR
\* with the offending field named.
C8_ValidationStatus ==
    [][ resp'.op \in {"create", "replace", "patch"} =>
          \A b \in InvalidBodies :
              \A t \in 1..RequestTasks :
                 (\/ api_create_task(Req(1, 0, b))
                  \/ api_replace_task(Req(1, t, b))
                  \/ api_update_task(Req(1, t, b)))
                 => /\ resp'.status = 400
                    /\ resp'.error_code = "VALIDATION_ERROR"
                    /\ InvalidFieldsOf[b] \subseteq resp'.fields
    ]_vars

TitledBodies == {b \in RequestBodies : ~IsNone(b.title)}

TrimmedTitleLenOf == [b \in TitledBodies |-> TrimmedLen(Val(b.title))]

\* C9: create, replace and patch accept a supplied title exactly when its
\* trimmed length is between 1 and 200, and a create stores the trimmed title.
C9_TitleLengthAfterTrim ==
    [][ resp'.op \in {"create", "replace", "patch"} \/ sess' # sess =>
          \A b \in TitledBodies :
              LET n == TrimmedTitleLenOf[b]
                  TitleRejected == resp'.status >= 400 /\ "title" \in resp'.fields
              IN  /\ \A t \in 1..RequestTasks :
                       (\/ api_create_task(Req(1, 0, b))
                        \/ api_replace_task(Req(1, t, b))
                        \/ api_update_task(Req(1, t, b)))
                       => (~TitleRejected <=> (n >= 1 /\ n <= 200))
                  /\ (api_create_task(Req(1, 0, b)) /\ tasks' # tasks)
                       => /\ Len(tasks'[next_id].title) = n
                          /\ TitleOk(tasks'[next_id].title)
    ]_vars

\* the description a create is to store: absent when none is supplied or when
\* the supplied one is blank, the trimmed one otherwise
ExpectedDescription(d) ==
    IF IsNone(d) THEN None
    ELSE IF TrimmedLen(Val(d)) = 0 THEN None
    ELSE Some(strip(Val(d)))

ExpectedDescriptionOf == [d \in RequestDescriptions |-> ExpectedDescription(d)]

\* C10: an accepted create by user u inserts exactly one row, with the
\* trimmed title, the trimmed description (absent when blank), completed =
\* false and user_id = u, and changes no other row; a get by u of that id
\* returns the stored row.
C10_CreateThenGet ==
    [][
        /\ sess' # sess =>
             \A b \in RequestBodies :
               (api_create_task(Req(1, 0, b)) /\ resp'.status < 400) =>
                  /\ next_id \notin DOMAIN tasks
                  /\ DOMAIN tasks' = DOMAIN tasks \cup {next_id}
                  /\ \A o \in DOMAIN tasks : tasks'[o] = tasks[o]
                  /\ tasks'[next_id].title = strip(Val(b.title))
                  /\ tasks'[next_id].description = ExpectedDescriptionOf[b.description]
                  /\ tasks'[next_id].completed = FALSE
                  /\ tasks'[next_id].user_id = 1
        /\ resp'.op = "get" =>
             \A t \in 1..RequestTasks :
               (api_get_task(Req(1, t, NoBody)) /\ resp'.status = 200)
                  => resp'.body = <<tasks[t]>>
    ]_vars

\* C11: the task a create returns has created_at equal to updated_at, also
\* when the clock advances while the create is processed.
C11_CreateTimestampsEqual ==
    (resp.op = "create" /\ resp.status = 201)
        => resp.body[1].created_at = resp.body[1].updated_at

\* C12: every stored row has updated_at >= created_at, after any sequence of
\* create, replace and patch, including overlapping ones on the same row.
C12_UpdatedNotBeforeCreated ==
    \A t \in DOMAIN tasks : tasks[t].updated_at >= tasks[t].created_at

\* two requests on the same row overlap, one having committed a later
\* updated_at and the other about to commit its own
C12_Witness ==
    /\ \E t \in DOMAIN tasks : tasks[t].updated_at > tasks[t].created_at
    /\ \E s, r \in Slots :
         /\ s # r
         /\ sess[s] # Idle /\ sess[s].op \in {"replace", "patch"} /\ sess[s].phase = "refresh"
         /\ sess[r] # Idle /\ sess[r].op \in {"replace", "patch"} /\ sess[r].phase = "commit"
         /\ sess[s].task_id = sess[r].task_id
         /\ ~NoUpdate(sess[r].dirty)

\* the session in slot s is a request of the given endpoint about to commit,
\* and this step is its commit
Commits(s, op) ==
    /\ sess[s] # Idle
    /\ sess[s].op = op
    /\ sess[s].phase = "commit"
    /\ sess'[s] # sess[s]

\* the row the session in slot s loaded is stored as it was loaded: no other
\* request has changed or deleted it since
Undisturbed(s) ==
    /\ sess[s].task_id \in DOMAIN tasks
    /\ tasks[sess[s].task_id] = Val(sess[s].loaded)

\* C13: the commit of a patch whose row is as the patch loaded it overwrites
\* exactly those of title (trimmed), description and completed that the body
\* supplies with a non-absent value, leaves every other column and every
\* other row as it was, and sets updated_at to the time the patch read the
\* clock, also when it supplies no field or changes no value; the patch then
\* answers 200 with the row.
C13_PatchSuppliedOnly ==
    [][\A s \in Slots :
        /\ (Commits(s, "patch") /\ Undisturbed(s)) =>
             LET b == sess[s].data
                 t == sess[s].task_id
             IN  /\ DOMAIN tasks' = DOMAIN tasks
                 /\ \A o \in DOMAIN tasks \ {t} : tasks'[o] = tasks[o]
                 /\ tasks'[t].title =
                       IF IsNone(b.title) THEN tasks[t].title ELSE strip(Val(b.title))
                 /\ tasks'[t].description =
                       IF IsNone(b.description) THEN tasks[t].description ELSE b.description
                 /\ tasks'[t].completed =
                       IF IsNone(b.completed) THEN tasks[t].completed ELSE Val(b.completed)
                 /\ tasks'[t].updated_at = sess[s].at
                 /\ tasks'[t].updated_at >= tasks[t].updated_at
                 /\ tasks'[t].id = tasks[t].id
                 /\ tasks'[t].user_id = tasks[t].user_id
                 /\ tasks'[t].created_at = tasks[t].created_at
        /\ (sess[s] # Idle /\ sess[s].op = "patch" /\ sess[s].phase = "refresh"
               /\ sess'[s] # sess[s] /\ sess[s].task_id \in DOMAIN tasks)
             => resp' = Response("patch", 200, NoErrorCode, {}, <<tasks[sess[s].task_id]>>)
    ]_vars

\* a patch of completed alone was answered with the row, its description kept
\* and its updated_at later than its created_at
C13_Witness ==
    /\ resp.op = "patch"
    /\ resp.status = 200
    /\ resp.body[1].completed
    /\ resp.body[1].description = Some(<<"d">>)
    /\ resp.body[1].updated_at > resp.body[1].created_at

\* C14: the commit of a replace whose row is as the replace loaded it sets
\* title (trimmed), description and completed to the body's values whatever
\* they were, the description to absent when the body omits it, sets
\* updated_at to the time the replace read the clock and leaves every other
\* column and row as it was; the replace then answers 200 with the row.
C14_ReplaceOverwritesAll ==
    [][\A s \in Slots :
        /\ (Commits(s, "replace") /\ Undisturbed(s)) =>
             LET b == sess[s].data
                 t == sess[s].task_id
             IN  /\ DOMAIN tasks' = DOMAIN tasks
                 /\ \A o \in DOMAIN tasks \ {t} : tasks'[o] = tasks[o]
                 /\ tasks'[t].title = strip(Val(b.title))
                 /\ tasks'[t].description = b.description
                 /\ tasks'[t].completed = Val(b.completed)
                 /\ tasks'[t].updated_at = sess[s].at
                 /\ tasks'[t].updated_at >= tasks[t].updated_at
                 /\ tasks'[t].id = tasks[t].id
                 /\ tasks'[t].user_id = tasks[t].user_id
                 /\ tasks'[t].created_at = tasks[t].created_at
        /\ (sess[s] # Idle /\ sess[s].op = "replace" /\ sess[s].phase = "refresh"
               /\ sess'[s] # sess[s] /\ sess[s].task_id \in DOMAIN tasks)
             => resp' = Response("replace", 200, NoErrorCode, {}, <<tasks[sess[s].task_id]>>)
    ]_vars

\* a replace without description has committed on a row that had one, and a
\* patch without description is about to commit on the row
C14_Witness ==
    \E s, r \in Slots :
        /\ sess[s] # Idle /\ sess[s].op = "replace" /\ sess[s].phase = "refresh"
        /\ sess[r] # Idle /\ sess[r].op = "patch" /\ sess[r].phase = "commit"
        /\ sess[r].task_id = sess[s].task_id
        /\ ~IsNone(Val(sess[r].loaded).description)
        /\ IsNone(sess[r].data.description)
        /\ sess[s].task_id \in DOMAIN tasks
        /\ IsNone(tasks[sess[s].task_id].description)

\* the ids given to a task and no longer stored: the deleted tasks
Deleted == (1..(next_id - 1)) \ DOMAIN tasks

\* C15: the commit of a delete answers 204 and removes the row; from then on
\* the id stays absent whatever is created, every get, replace, patch and
\* delete of it by any user is answered 404 TASK_NOT_FOUND, and no list
\* returns it.
C15_DeletedStaysGone ==
    [][
        /\ \A s \in Slots :
             Commits(s, "delete") =>
                resp'.status = 204 /\ sess[s].task_id \in Deleted'
        /\ Deleted \subseteq Deleted'
        /\ DOMAIN tasks' \subseteq 1..(next_id' - 1)
        /\ (resp'.op \in {"get", "replace", "patch", "delete"} \/ sess' # sess) =>
             \A u \in Users, t \in Deleted :
                 LET NotFound == resp'.status = 404 /\ resp'.error_code = "TASK_NOT_FOUND"
                 IN  /\ api_get_task(Req(u, t, NoBody)) => NotFound
                     /\ api_delete_task(Req(u, t, NoBody)) => NotFound
                     /\ \A b \in ReplaceBodies :
                          (/\ TaskReplace(b.title, b.description, b.completed).errors = {}
                           /\ api_replace_task(Req(u, t, b))) => NotFound
                     /\ \A b \in UpdateBodies :
                          (/\ TaskUpdate(b.title, b.description, b.completed).errors = {}
                           /\ api_update_task(Req(u, t, b))) => NotFound
        /\ resp'.op = "list" =>
             \A i \in DOMAIN resp'.body : resp'.body[i].id \notin Deleted
    ]_vars

\* after the delete of task 1 and the creation of task 2, a patch of task 1
\* was answered 404
C15_Witness ==
    /\ Deleted = {1}
    /\ DOMAIN tasks = {2}
    /\ resp.op = "patch"
    /\ resp.status = 404

\* C16: a list returns its rows by created_at descending: of two rows with
\* different created_at, the one created later comes first.
C16_ListNewestFirst ==
    resp.op = "list" =>
        \A i, j \in DOMAIN resp.body :
            (i < j /\ resp.body[i].created_at # resp.body[j].created_at)
                => resp.body[i].created_at > resp.body[j].created_at

\* a list returned two rows created at different times
C16_Witness ==
    /\ resp.op = "list"
    /\ Len(resp.body) = 2
    /\ resp.body[1].created_at # resp.body[2].created_at

\* C17: two lists of the same user with no step in between return the same
\* sequence, rows that share a created_at included.
C17_ListStable ==
    [][ \A u \in Users :
          (/\ resp.op = "list"
           /\ resp.body # <<>>
           /\ resp.body[1].user_id = u
           /\ resp'.op = "list"
           /\ api_list_tasks(Req(u, 0, NoBody)))
          => resp'.body = resp.body
    ]_vars

\* another replace or patch of the same row is in flight with the session in
\* slot s
Overlapping(s) ==
    \E r \in Slots \ {s} :
        /\ sess[r] # Idle
        /\ sess[r].op \in {"replace", "patch"}
        /\ sess[r].task_id = sess[s].task_id

\* the request of slot s read its row before a replace or patch, committed
\* since, wrote it
Overtaken(s) ==
    /\ sess[s].task_id \in DOMAIN tasks
    /\ tasks[sess[s].task_id] # Val(sess[s].loaded)

\* C18: when replaces and patches of one row by its owner overlap, each
\* commits without being rejected and answers 200, and after a commit the
\* stored title, description and completed are the ones that commit's request
\* wrote: all three for a replace, the supplied ones for a patch.
C18_LastCommitWins ==
    [][\A s \in Slots :
        /\ (/\ sess[s] # Idle
            /\ sess[s].op \in {"replace", "patch"}
            /\ sess[s].phase = "commit"
            /\ sess'[s] # sess[s]
            /\ sess[s].task_id \in DOMAIN tasks
            /\ Overlapping(s) \/ Overtaken(s)) =>
             LET b == sess[s].data
                 t == sess[s].task_id
                 Writes(f) == sess[s].op = "replace" \/ ~IsNone(b[f])
             IN  /\ resp' = NoResponse
                 /\ sess'[s] # Idle
                 /\ t \in DOMAIN tasks'
                 /\ Writes("title") => tasks'[t].title = strip(Val(b.title))
                 /\ Writes("description") => tasks'[t].description = b.description
                 /\ Writes("completed") => tasks'[t].completed = Val(b.completed)
        /\ (/\ sess[s] # Idle
            /\ sess[s].op \in {"replace", "patch"}
            /\ sess[s].phase = "refresh"
            /\ sess'[s] # sess[s]
            /\ sess[s].task_id \in DOMAIN tasks)
             => resp'.status = 200
    ]_vars

\* C19: a replace or patch whose row was deleted after it read it does not
\* bring the row back: its commit and its refresh leave the id absent and
\* answer no success, and no list returns the id.
C19_LateWriteAfterDelete ==
    [][
        /\ \A s \in Slots :
             (/\ sess[s] # Idle
              /\ sess[s].op \in {"replace", "patch"}
              /\ sess[s].task_id \in Deleted
              /\ sess'[s] # sess[s]) =>
                /\ sess[s].task_id \in Deleted'
                /\ resp'.status # 200
                /\ sess'[s] = Idle => resp'.status = 500
        /\ resp'.op = "list" =>
             \A i \in DOMAIN resp'.body : resp'.body[i].id \notin Deleted
    ]_vars

\* a replace or patch that had read the row was answered a server error after
\* a delete removed the row
C19_Witness ==
    /\ resp.op \in {"replace", "patch"}
    /\ resp.status = 500
    /\ resp.error_code = NoErrorCode
    /\ Deleted = {1}

====
